---- MODULE Spec2Model ----
(***************************************************************************)
(* Schema validation of column tables (patrol/pavise), both backends.      *)
(*                                                                         *)
(* A table is a sequence of columns; a column is a name, a backend dtype   *)
(* and a sequence of cells (a cell is a value or null).  A schema is the   *)
(* ordered mapping get_type_hints returns: a sequence of (name,            *)
(* annotation).  An annotation is an atom (a Python type or a backend      *)
(* dtype class) under a stack of wrappers, outermost first; the metadata   *)
(* of its Annotated layer is a sequence of validator objects.  Cells of    *)
(* an object / String column stand for strings, numbered by their value.   *)
(***************************************************************************)
EXTENDS Integers, Sequences, FiniteSets, TLC

VARIABLES backend,   \* "polars" or "pandas": which validation module is in use
          schema,    \* the Protocol's type hints, in declaration order
          table,     \* the caller's table
          outcomes,  \* what each validation call so far did: returned or raised
          frame,     \* the object the last typed construction produced
          applied,   \* what the last direct apply_validator call did
          lazy,      \* the typed lazy frame, once one is constructed
          last       \* the last operation on a pavise wrapper and its strict

vars == <<backend, schema, table, outcomes, frame, applied, lazy, last>>

-----------------------------------------------------------------------------
(* Bounds *)

MaxRows == 2     \* rows of a column in the whole-table specification
MaxVal == 1      \* cell values there are 0..MaxVal
MaxSeries == 3   \* rows of the series in the validator specification
MaxNum == 3      \* cell values and Range bounds there are 0..MaxNum
MaxCalls == 2    \* validation calls on one table
MaxCollects == 2 \* collect calls on one lazy frame

-----------------------------------------------------------------------------
(* Cells, series, columns *)

Null == [isnull |-> TRUE, v |-> 0]

Cell(x) == [isnull |-> FALSE, v |-> x]

Cells(n) == {Null} \cup {Cell(x) : x \in 0..n}

SeqsUpTo(S, n) == UNION {[1..k -> S] : k \in 0..n}

Column(n, d, vs) == [name |-> n, dtype |-> d, values |-> vs]

\* df.columns
columns(df) == {df[i].name : i \in 1..Len(df)}

\* df[col_name]
getitem(df, col_name) ==
    df[CHOOSE i \in 1..Len(df) : df[i].name = col_name]

\* Series.null_count()
null_count(series) ==
    Cardinality({i \in 1..Len(series.values) : series.values[i].isnull})

-----------------------------------------------------------------------------
(* Validator objects (patrol/validators.py) *)

Range(lo, hi) == [kind |-> "Range", min |-> lo, max |-> hi]

Unique == [kind |-> "Unique", min |-> 0, max |-> 0]

-----------------------------------------------------------------------------
(* Annotations *)

Ann(w, m, b) == [wrap |-> w, meta |-> m, base |-> b]

Plain(b) == Ann(<<>>, <<>>, b)

OptionalOf(b) == Ann(<<"Optional">>, <<>>, b)

Annotated(b, m) == Ann(<<"Annotated">>, m, b)

AnnotatedOptional(b, m) == Ann(<<"Annotated", "Optional">>, m, b)

BasicTypes == {"int", "float", "str", "bool", "datetime", "date", "timedelta"}

\* what one validation call did
Returned == [kind |-> "ok", col |-> "", expected |-> "", actual |-> "",
             detail |-> "", examined |-> 0]

Raise(k, c, e, a, d) ==
    [kind |-> k, col |-> c, expected |-> e, actual |-> a, detail |-> d,
     examined |-> 0]

-----------------------------------------------------------------------------
(* _extract_type_and_validators, the same text in both backends: returns   *)
(* (base_type, validators, is_optional).  base_type is what is left of the *)
(* annotation, which still carries wrappers when an Annotated sits inside  *)
(* an Optional.                                                            *)

extract_type_and_validators(annotation) ==
    LET isAnn == Len(annotation.wrap) > 0 /\ Head(annotation.wrap) = "Annotated"
        validators == IF isAnn THEN annotation.meta ELSE <<>>
        inner == IF isAnn
                 THEN Ann(Tail(annotation.wrap), <<>>, annotation.base)
                 ELSE annotation
        isOpt == Len(inner.wrap) > 0 /\ Head(inner.wrap) = "Optional"
    IN  IF isOpt
        THEN [base_type |-> Ann(Tail(inner.wrap), inner.meta, inner.base),
              validators |-> validators, is_optional |-> TRUE]
        ELSE [base_type |-> inner, validators |-> validators,
              is_optional |-> FALSE]

\* isinstance(base_type, type): a bare class, no typing wrapper left
is_type(base_type) == base_type.wrap = <<>>

-----------------------------------------------------------------------------
(* polars backend *)

PolarsDtypeClasses ==
    {"Int8", "Int16", "Int32", "Int64", "UInt8", "UInt16", "UInt32", "UInt64",
     "Float32", "Float64", "String", "Boolean", "Datetime", "Date",
     "Duration", "Categorical"}

\* hasattr(dtype, "time_unit"): Datetime and Duration instances carry one
pl_has_time_unit(dtype) == dtype \in {"Datetime", "Duration"}

pl_is_datetime_dtype(dtype) ==
    IF dtype = "Datetime" THEN TRUE
    ELSE IF pl_has_time_unit(dtype) THEN TRUE
    ELSE FALSE

pl_TYPE_CHECKERS(t, dtype) ==
    CASE t = "int" -> dtype \in {"Int8", "Int16", "Int32", "Int64",
                                 "UInt8", "UInt16", "UInt32", "UInt64"}
      [] t = "float" -> dtype \in {"Float32", "Float64"}
      [] t = "str" -> dtype = "String"
      [] t = "bool" -> dtype = "Boolean"
      [] t = "datetime" -> pl_is_datetime_dtype(dtype)
      [] t = "date" -> dtype = "Date"
      [] t = "timedelta" -> dtype = "Duration"
      [] OTHER -> FALSE

\* pl_validate_range with the bounds excluded: <= and >= for < and >
pl_validate_range_exclusive(series, validator, col_name) ==
    IF (\E i \in 1..Len(series.values) :
            ~series.values[i].isnull /\ series.values[i].v <= validator.min)
       \/ (\E i \in 1..Len(series.values) :
            ~series.values[i].isnull /\ series.values[i].v >= validator.max)
    THEN Raise("ConstraintViolation", col_name, "", "", "range")
    ELSE Returned

\* (series < validator.min).any() or (series > validator.max).any():
\* a comparison with a null cell is null, and any() skips nulls
pl_validate_range(series, validator, col_name) ==
    IF (\E i \in 1..Len(series.values) :
            ~series.values[i].isnull /\ series.values[i].v < validator.min)
       \/ (\E i \in 1..Len(series.values) :
            ~series.values[i].isnull /\ series.values[i].v > validator.max)
    THEN Raise("ConstraintViolation", col_name, "", "", "range")
    ELSE Returned

\* series.is_duplicated().any(): is_duplicated marks every cell that equals
\* another cell, and two null cells equal each other
pl_validate_unique(series, col_name) ==
    IF \E i, j \in 1..Len(series.values) :
            i # j /\ series.values[i] = series.values[j]
    THEN Raise("ConstraintViolation", col_name, "", "", "duplicate")
    ELSE Returned

\* a variant that lets a validator of an unknown class pass
pl_apply_validator_skip_unknown(series, validator, col_name) ==
    IF validator.kind = "Range"
    THEN pl_validate_range(series, validator, col_name)
    ELSE IF validator.kind = "Unique"
    THEN pl_validate_unique(series, col_name)
    ELSE Returned

pl_apply_validator(series, validator, col_name) ==
    IF validator.kind = "Range"
    THEN pl_validate_range(series, validator, col_name)
    ELSE IF validator.kind = "Unique"
    THEN pl_validate_unique(series, col_name)
    ELSE Raise("UnknownValidator", col_name, "", "", validator.kind)

RECURSIVE pl_apply_all(_, _, _, _)
\* for validator in validators: apply_validator(df[col_name], validator, col_name)
pl_apply_all(series, validators, col_name, k) ==
    IF k > Len(validators) THEN Returned
    ELSE LET r == pl_apply_validator(series, validators[k], col_name)
         IN  IF r.kind # "ok" THEN r
             ELSE pl_apply_all(series, validators, col_name, k + 1)

pl_check_column_exists(df, col_name) ==
    IF col_name \notin columns(df)
    THEN Raise("MissingColumn", col_name, "", "", "")
    ELSE Returned

\* pl_check_column_type with the null check not looking at is_optional
pl_check_column_type_nulls_always(df, col_name, expected_type) ==
    LET x == extract_type_and_validators(expected_type)
        base_type == x.base_type
        col_dtype == getitem(df, col_name).dtype
    IN  IF is_type(base_type) /\ base_type.base \in PolarsDtypeClasses
        THEN IF col_dtype # base_type.base
             THEN Raise("TypeMismatch", col_name, base_type.base, col_dtype, "")
             ELSE pl_apply_all(getitem(df, col_name), x.validators, col_name, 1)
        ELSE IF ~(is_type(base_type) /\ base_type.base \in BasicTypes)
        THEN Raise("UnsupportedType", col_name, base_type.base, "", "")
        ELSE IF ~pl_TYPE_CHECKERS(base_type.base, col_dtype)
        THEN Raise("TypeMismatch", col_name, base_type.base, col_dtype, "")
        ELSE IF null_count(getitem(df, col_name)) > 0
        THEN Raise("NullabilityViolation", col_name, "", "", "")
        ELSE pl_apply_all(getitem(df, col_name), x.validators, col_name, 1)

\* pl_check_column_type with the null check on the dtype-class path as well
pl_check_column_type_native_nulls(df, col_name, expected_type) ==
    LET x == extract_type_and_validators(expected_type)
        base_type == x.base_type
        col_dtype == getitem(df, col_name).dtype
    IN  IF is_type(base_type) /\ base_type.base \in PolarsDtypeClasses
        THEN IF col_dtype # base_type.base
             THEN Raise("TypeMismatch", col_name, base_type.base, col_dtype, "")
             ELSE IF ~x.is_optional /\ null_count(getitem(df, col_name)) > 0
             THEN Raise("NullabilityViolation", col_name, "", "", "")
             ELSE pl_apply_all(getitem(df, col_name), x.validators, col_name, 1)
        ELSE IF ~(is_type(base_type) /\ base_type.base \in BasicTypes)
        THEN Raise("UnsupportedType", col_name, base_type.base, "", "")
        ELSE IF ~pl_TYPE_CHECKERS(base_type.base, col_dtype)
        THEN Raise("TypeMismatch", col_name, base_type.base, col_dtype, "")
        ELSE IF ~x.is_optional /\ null_count(getitem(df, col_name)) > 0
        THEN Raise("NullabilityViolation", col_name, "", "", "")
        ELSE pl_apply_all(getitem(df, col_name), x.validators, col_name, 1)

\* pl_check_column_type running the validators before the null check
pl_check_column_type_validators_first(df, col_name, expected_type) ==
    LET x == extract_type_and_validators(expected_type)
        base_type == x.base_type
        col_dtype == getitem(df, col_name).dtype
        v == pl_apply_all(getitem(df, col_name), x.validators, col_name, 1)
    IN  IF is_type(base_type) /\ base_type.base \in PolarsDtypeClasses
        THEN IF col_dtype # base_type.base
             THEN Raise("TypeMismatch", col_name, base_type.base, col_dtype, "")
             ELSE v
        ELSE IF ~(is_type(base_type) /\ base_type.base \in BasicTypes)
        THEN Raise("UnsupportedType", col_name, base_type.base, "", "")
        ELSE IF ~pl_TYPE_CHECKERS(base_type.base, col_dtype)
        THEN Raise("TypeMismatch", col_name, base_type.base, col_dtype, "")
        ELSE IF v.kind # "ok" THEN v
        ELSE IF ~x.is_optional /\ null_count(getitem(df, col_name)) > 0
        THEN Raise("NullabilityViolation", col_name, "", "", "")
        ELSE Returned

pl_check_column_type(df, col_name, expected_type) ==
    LET x == extract_type_and_validators(expected_type)
        base_type == x.base_type
        col_dtype == getitem(df, col_name).dtype
    IN  IF is_type(base_type) /\ base_type.base \in PolarsDtypeClasses
        THEN IF col_dtype # base_type.base
             THEN Raise("TypeMismatch", col_name, base_type.base, col_dtype, "")
             ELSE pl_apply_all(getitem(df, col_name), x.validators, col_name, 1)
        ELSE IF ~(is_type(base_type) /\ base_type.base \in BasicTypes)
        THEN Raise("UnsupportedType", col_name, base_type.base, "", "")
        ELSE IF ~pl_TYPE_CHECKERS(base_type.base, col_dtype)
        THEN Raise("TypeMismatch", col_name, base_type.base, col_dtype, "")
        ELSE IF ~x.is_optional /\ null_count(getitem(df, col_name)) > 0
        THEN Raise("NullabilityViolation", col_name, "", "", "")
        ELSE pl_apply_all(getitem(df, col_name), x.validators, col_name, 1)

RECURSIVE pl_validate_from_last(_, _, _)
\* the loop of validate_dataframe going on after a failure and raising the
\* last one it met
pl_validate_from_last(df, expected_cols, i) ==
    IF i > Len(expected_cols) THEN [Returned EXCEPT !.examined = i - 1]
    ELSE LET e == pl_check_column_exists(df, expected_cols[i].name)
             t == IF e.kind # "ok" THEN e
                  ELSE pl_check_column_type(df, expected_cols[i].name,
                                            expected_cols[i].ann)
             rest == pl_validate_from_last(df, expected_cols, i + 1)
         IN  IF rest.kind # "ok" THEN rest
             ELSE IF t.kind # "ok"
             THEN [t EXCEPT !.examined = Len(expected_cols)]
             ELSE rest

RECURSIVE pl_validate_from(_, _, _)
\* the loop of validate_dataframe from the i-th type hint on; examined is
\* the number of type hints the loop has visited when the call ends
pl_validate_from(df, expected_cols, i) ==
    IF i > Len(expected_cols) THEN [Returned EXCEPT !.examined = i - 1]
    ELSE LET e == pl_check_column_exists(df, expected_cols[i].name)
         IN  IF e.kind # "ok" THEN [e EXCEPT !.examined = i]
             ELSE LET t == pl_check_column_type(df, expected_cols[i].name,
                                                expected_cols[i].ann)
                  IN  IF t.kind # "ok" THEN [t EXCEPT !.examined = i]
                      ELSE pl_validate_from(df, expected_cols, i + 1)

pl_validate_dataframe(df, S) == pl_validate_from(df, S, 1)

-----------------------------------------------------------------------------
(* pandas backend *)

PandasExtensionDtypes == {"CategoricalDtype", "Int64Dtype"}

\* type(col_dtype).__name__ with every integer dtype taken for Int64Dtype
pd_type_of_family(dtype) ==
    CASE dtype = "category" -> "CategoricalDtype"
      [] dtype \in {"Int64", "int64"} -> "Int64Dtype"
      [] dtype = "float64" -> "Float64DType"
      [] dtype = "object" -> "ObjectDType"
      [] dtype = "bool" -> "BoolDType"
      [] dtype = "datetime64[ns]" -> "DateTime64DType"
      [] OTHER -> "TimeDelta64DType"

\* type(col_dtype).__name__: the extension dtype classes of pandas and the
\* per-dtype classes of numpy
pd_type_of(dtype) ==
    CASE dtype = "category" -> "CategoricalDtype"
      [] dtype = "Int64" -> "Int64Dtype"
      [] dtype = "int64" -> "Int64DType"
      [] dtype = "float64" -> "Float64DType"
      [] dtype = "object" -> "ObjectDType"
      [] dtype = "bool" -> "BoolDType"
      [] dtype = "datetime64[ns]" -> "DateTime64DType"
      [] OTHER -> "TimeDelta64DType"

pd_is_integer_dtype(dtype) == dtype \in {"int64", "Int64"}

pd_is_float_dtype(dtype) == dtype = "float64"

\* pandas.api.types.is_string_dtype on a Series: an object column is a string
\* column when every element is a str (an empty one is); a categorical with
\* string categories is one as well
pd_is_string_dtype(series) ==
    IF series.dtype = "object" THEN null_count(series) = 0
    ELSE series.dtype = "category"

pd_TYPE_CHECKERS(t, series) ==
    CASE t = "int" -> pd_is_integer_dtype(series.dtype)
      [] t = "float" -> pd_is_float_dtype(series.dtype)
      [] t = "str" -> pd_is_string_dtype(series)
      [] t = "bool" -> series.dtype = "bool"
      [] t = "datetime" -> series.dtype = "datetime64[ns]"
      [] t = "date" -> series.dtype = "datetime64[ns]"
      [] t = "timedelta" -> series.dtype = "timedelta64[ns]"
      [] OTHER -> FALSE

\* isinstance(col_dtype, object): every Python value is an object
pd_isinstance_object(col_dtype) == TRUE

\* (series < validator.min).any() or (series > validator.max).any():
\* a comparison with NaN / NA is not true
pd_validate_range(series, validator, col_name) ==
    IF (\E i \in 1..Len(series.values) :
            ~series.values[i].isnull /\ series.values[i].v < validator.min)
       \/ (\E i \in 1..Len(series.values) :
            ~series.values[i].isnull /\ series.values[i].v > validator.max)
    THEN Raise("ConstraintViolation", col_name, "", "", "range")
    ELSE Returned

\* pd_validate_unique comparing neighbouring cells only
pd_validate_unique_adjacent(series, col_name) ==
    IF \E i, j \in 1..Len(series.values) :
            j = i + 1 /\ series.values[i] = series.values[j]
    THEN Raise("ConstraintViolation", col_name, "", "", "duplicate")
    ELSE Returned

\* series.duplicated().any(): duplicated marks every cell that equals an
\* earlier cell, and a missing value equals an earlier missing value
pd_validate_unique(series, col_name) ==
    IF \E i, j \in 1..Len(series.values) :
            i < j /\ series.values[i] = series.values[j]
    THEN Raise("ConstraintViolation", col_name, "", "", "duplicate")
    ELSE Returned

pd_apply_validator(series, validator, col_name) ==
    IF validator.kind = "Range"
    THEN pd_validate_range(series, validator, col_name)
    ELSE IF validator.kind = "Unique"
    THEN pd_validate_unique(series, col_name)
    ELSE Raise("UnknownValidator", col_name, "", "", validator.kind)

RECURSIVE pd_apply_all(_, _, _, _)
\* for validator in validators: apply_validator(df[col_name], validator, col_name)
pd_apply_all(series, validators, col_name, k) ==
    IF k > Len(validators) THEN Returned
    ELSE LET r == pd_apply_validator(series, validators[k], col_name)
         IN  IF r.kind # "ok" THEN r
             ELSE pd_apply_all(series, validators, col_name, k + 1)

pd_check_column_exists(df, col_name) ==
    IF col_name \notin columns(df)
    THEN Raise("MissingColumn", col_name, "", "", "")
    ELSE Returned

\* _check_column_type standing a float column in for int, and any column in
\* for str, whether or not the declaration is Optional
pd_check_column_type_lenient(df, col_name, expected_type) ==
    LET x == extract_type_and_validators(expected_type)
        base_type == x.base_type
        series == getitem(df, col_name)
        col_dtype == series.dtype
    IN  IF is_type(base_type) /\ base_type.base \in PandasExtensionDtypes
        THEN IF pd_type_of(col_dtype) # base_type.base
             THEN Raise("TypeMismatch", col_name, base_type.base,
                        pd_type_of(col_dtype), "")
             ELSE pd_apply_all(series, x.validators, col_name, 1)
        ELSE IF ~(is_type(base_type) /\ base_type.base \in BasicTypes)
        THEN Raise("UnsupportedType", col_name, base_type.base, "", "")
        ELSE IF ~pd_TYPE_CHECKERS(base_type.base, series)
                /\ ~(base_type.base = "int" /\ pd_is_float_dtype(col_dtype))
                /\ ~(base_type.base = "str"
                     /\ pd_isinstance_object(col_dtype))
        THEN Raise("TypeMismatch", col_name, base_type.base, col_dtype, "")
        ELSE pd_apply_all(series, x.validators, col_name, 1)

pd_check_column_type(df, col_name, expected_type) ==
    LET x == extract_type_and_validators(expected_type)
        base_type == x.base_type
        series == getitem(df, col_name)
        col_dtype == series.dtype
    IN  IF is_type(base_type) /\ base_type.base \in PandasExtensionDtypes
        THEN IF pd_type_of(col_dtype) # base_type.base
             THEN Raise("TypeMismatch", col_name, base_type.base,
                        pd_type_of(col_dtype), "")
             ELSE pd_apply_all(series, x.validators, col_name, 1)
        ELSE IF ~(is_type(base_type) /\ base_type.base \in BasicTypes)
        THEN Raise("UnsupportedType", col_name, base_type.base, "", "")
        ELSE IF ~pd_TYPE_CHECKERS(base_type.base, series)
                /\ ~(x.is_optional /\ base_type.base = "int"
                     /\ pd_is_float_dtype(col_dtype))
                /\ ~(x.is_optional /\ base_type.base = "str"
                     /\ pd_isinstance_object(col_dtype))
        THEN Raise("TypeMismatch", col_name, base_type.base, col_dtype, "")
        ELSE pd_apply_all(series, x.validators, col_name, 1)

RECURSIVE pd_validate_from(_, _, _)
\* the loop of validate_dataframe from the i-th type hint on
pd_validate_from(df, expected_cols, i) ==
    IF i > Len(expected_cols) THEN [Returned EXCEPT !.examined = i - 1]
    ELSE LET e == pd_check_column_exists(df, expected_cols[i].name)
         IN  IF e.kind # "ok" THEN [e EXCEPT !.examined = i]
             ELSE LET t == pd_check_column_type(df, expected_cols[i].name,
                                                expected_cols[i].ann)
                  IN  IF t.kind # "ok" THEN [t EXCEPT !.examined = i]
                      ELSE pd_validate_from(df, expected_cols, i + 1)

pd_validate_dataframe(df, S) == pd_validate_from(df, S, 1)

-----------------------------------------------------------------------------
(* The typed wrappers and the operations on them *)

validate_dataframe(b, df, S) ==
    IF b = "polars" THEN pl_validate_dataframe(df, S)
    ELSE pd_validate_dataframe(df, S)

apply_validator(b, series, validator, col_name) ==
    IF b = "polars" THEN pl_apply_validator(series, validator, col_name)
    ELSE pd_apply_validator(series, validator, col_name)

NoFrame == [built |-> FALSE, data |-> <<>>]

\* TypedDataFrame.__init__ keeping only the columns the schema declares
DataFrame_init_declared_only(b, data, S) ==
    LET Declared(c) == c.name \in {S[i].name : i \in 1..Len(S)}
        self == SelectSeq(data, Declared)
        r == validate_dataframe(b, data, S)
    IN  [raised |-> r,
         self |-> IF r.kind = "ok" THEN [built |-> TRUE, data |-> self]
                  ELSE NoFrame]

\* TypedDataFrame.__init__: the base constructor fills self from data, then
\* self is validated against the class's schema; a raise leaves no object
DataFrame_init(b, data, S) ==
    LET self == data
        r == validate_dataframe(b, self, S)
    IN  [raised |-> r,
         self |-> IF r.kind = "ok" THEN [built |-> TRUE, data |-> self]
                  ELSE NoFrame]

NotApplied == [kind |-> "none", col |-> "", expected |-> "", actual |-> "",
               detail |-> "", examined |-> 0]

\* a validation call that fills the nulls of the table it is given
ValidateFillingNulls ==
    /\ Len(outcomes) < MaxCalls
    /\ Len(schema) > 0
    /\ outcomes' = Append(outcomes, validate_dataframe(backend, table, schema))
    /\ table' = [k \in 1..Len(table) |->
                    [table[k] EXCEPT !.values =
                        [n \in 1..Len(table[k].values) |->
                            IF table[k].values[n].isnull THEN Cell(0)
                            ELSE table[k].values[n]]]]
    /\ UNCHANGED <<backend, schema, frame, applied, lazy, last>>

\* a direct call validate_dataframe(df, schema)
Validate ==
    /\ Len(outcomes) < MaxCalls
    /\ Len(schema) > 0
    /\ outcomes' = Append(outcomes, validate_dataframe(backend, table, schema))
    /\ UNCHANGED <<backend, schema, table, frame, applied, lazy, last>>

\* DataFrame[schema](table)
Construct ==
    /\ Len(outcomes) < MaxCalls
    /\ Len(schema) > 0
    /\ LET c == DataFrame_init(backend, table, schema)
       IN  /\ outcomes' = Append(outcomes, c.raised)
           /\ frame' = c.self
    /\ UNCHANGED <<backend, schema, table, applied, lazy, last>>

\* a direct call apply_validator(series, validator, col_name) on the first
\* column of the table with a validator of the first declaration
ApplyValidator ==
    /\ applied = NotApplied
    /\ Len(table) > 0
    /\ \E k \in 1..Len(schema[1].ann.meta) :
          applied' = apply_validator(backend, table[1], schema[1].ann.meta[k],
                                     table[1].name)
    /\ UNCHANGED <<backend, schema, table, outcomes, frame, lazy, last>>

-----------------------------------------------------------------------------
(* Inputs *)

Backends == {"polars", "pandas"}

TableDtypes(b) ==
    IF b = "polars"
    THEN {"Int64", "Float64", "String", "Boolean", "Datetime", "Date",
          "Duration", "Categorical"}
    ELSE {"int64", "Int64", "float64", "object", "bool", "datetime64[ns]",
          "timedelta64[ns]", "category"}

\* every polars column has a validity mask; numpy int64 and bool columns of
\* pandas have no representation of a missing value
can_hold_null(b, dtype) == b = "polars" \/ dtype \notin {"int64", "bool"}

NativeTypes(b) ==
    IF b = "polars" THEN {"Int64", "Categorical"}
    ELSE {"Int64Dtype", "CategoricalDtype"}

Ranges(n) ==
    {Range(p[1], p[2]) : p \in {q \in (0..n) \X (0..n) : q[1] <= q[2]}}

Series(b, n, dtypes, cells, rows) ==
    {Column(n, d, vs) : d \in dtypes, vs \in SeqsUpTo(cells, rows)}

\* the columns a table of backend b can hold under name n
Columns(b, n, dtypes, cells, rows) ==
    {c \in Series(b, n, dtypes, cells, rows) :
        can_hold_null(b, c.dtype) \/ null_count(c) = 0}

Metas(n) ==
    {<<Unique>>} \cup {<<r>> : r \in Ranges(n)}
    \cup {<<r, Unique>> : r \in Ranges(n)}

\* the declarations of the first column
Decls(b) ==
    {Plain(t) : t \in BasicTypes} \cup {OptionalOf(t) : t \in BasicTypes}
    \cup {Annotated("int", m) : m \in Metas(MaxVal)}
    \cup {AnnotatedOptional("int", m) : m \in Metas(MaxVal)}
    \cup {Plain(t) : t \in NativeTypes(b)}

\* the declarations of the second column
TailDecls == {Plain("int"), OptionalOf("str")}

\* the second column of the table, when it has one
TailColumns(b) ==
    IF b = "polars"
    THEN {Column("b", "Int64", <<Cell(0)>>), Column("b", "Int64", <<Null>>),
          Column("b", "String", <<Cell(0)>>)}
    ELSE {Column("b", "int64", <<Cell(0)>>), Column("b", "float64", <<Null>>),
          Column("b", "object", <<Cell(0)>>)}

Schemas(b) ==
    {<<[name |-> "a", ann |-> d]>> : d \in Decls(b)}
    \cup {<<[name |-> "a", ann |-> d], [name |-> "b", ann |-> e]>> :
            d \in Decls(b), e \in TailDecls}

Tables(b) ==
    LET firsts == {<<>>} \cup {<<c>> : c \in
                     Columns(b, "a", TableDtypes(b), Cells(MaxVal), MaxRows)}
        seconds == {<<>>} \cup {<<c>> : c \in TailColumns(b)}
    IN  {f \o g : f \in firsts, g \in seconds}

-----------------------------------------------------------------------------
(* Whole-table validation: any schema against any table *)

Init ==
    /\ backend \in Backends
    /\ schema \in Schemas(backend)
    /\ table \in Tables(backend)
    /\ outcomes = <<>>
    /\ frame = NoFrame
    /\ applied = NotApplied
    /\ lazy = [built |-> FALSE, ldf |-> <<>>]
    /\ last = [op |-> "none", strict |-> FALSE]

Next == Validate \/ Construct

Spec == Init /\ [][Next]_vars

-----------------------------------------------------------------------------
(* One validator applied to one numeric series *)

NumericDtypes(b) ==
    IF b = "polars" THEN {"Int64", "Float64"} ELSE {"Int64", "float64"}

InitSeries ==
    /\ backend \in Backends
    /\ schema \in {<<[name |-> "a", ann |-> AnnotatedOptional("int", <<v>>)]>> :
                      v \in Ranges(MaxNum) \cup {Unique}}
    /\ table \in {<<c>> : c \in Columns(backend, "a", NumericDtypes(backend),
                                       Cells(MaxNum), MaxSeries)}
    /\ outcomes = <<>>
    /\ frame = NoFrame
    /\ applied = NotApplied
    /\ lazy = [built |-> FALSE, ldf |-> <<>>]
    /\ last = [op |-> "none", strict |-> FALSE]

NextSeries == ApplyValidator

SpecSeries == InitSeries /\ [][NextSeries]_vars

-----------------------------------------------------------------------------
(* pavise.polars: the typed DataFrame and LazyFrame of pavise/polars.py    *)
(* over the validation module they import (pavise._polars.validation).     *)
(* An outcome of this module also carries the list of unexpected columns.  *)

NotRequired(b) == Ann(<<"NotRequired">>, <<>>, b)

NotRequiredOptional(b) == Ann(<<"NotRequired", "Optional">>, <<>>, b)

UnionTypes == {"Union[int,str]", "Union[str,int]", "Union[int,str,None]"}

\* the literal sets: one of the int 0, one of the string numbered 0
LiteralTypes == {"Literal[0]", "Literal[s0]"}

\* typing.get_args of a union
union_args(base) ==
    CASE base = "Union[int,str]" -> <<"int", "str">>
      [] base = "Union[str,int]" -> <<"str", "int">>
      [] base = "Union[int,str,None]" -> <<"int", "str", "None">>
      [] OTHER -> <<>>

\* the member types of a union base type, the null marker left out
union_members(base) == SelectSeq(union_args(base), LAMBDA t : t # "None")

\* typing.get_args of a literal set
literal_values(base) == <<0>>

\* type(literal_values[0])
literal_type(base) == IF base = "Literal[0]" THEN "int" ELSE "str"

\* the implicit membership validator of a literal set, whose members are the
\* values min..max
LiteralIn(base) ==
    [kind |-> "Literal", min |-> literal_values(base)[1],
     max |-> literal_values(base)[Len(literal_values(base))]]

HasWrapper(annotation, w) ==
    \E k \in 1..Len(annotation.wrap) : annotation.wrap[k] = w

\* _extract_type_and_validators of pavise: (base_type, validators,
\* is_optional, is_required), unwrapping to a fixed point
pv_extract_type_and_validators(annotation) ==
    [base_type |-> annotation.base,
     validators |->
        (IF HasWrapper(annotation, "Annotated") THEN annotation.meta
         ELSE <<>>)
        \o (IF annotation.base \in LiteralTypes
            THEN <<LiteralIn(annotation.base)>> ELSE <<>>),
     is_optional |->
        \/ HasWrapper(annotation, "Optional")
        \/ \E k \in 1..Len(union_args(annotation.base)) :
              union_args(annotation.base)[k] = "None",
     is_required |-> ~HasWrapper(annotation, "NotRequired")]

\* the canonical dtype of each basic type
TYPE_TO_DTYPE(t) ==
    CASE t = "int" -> "Int64"
      [] t = "float" -> "Float64"
      [] t = "str" -> "String"
      [] t = "bool" -> "Boolean"
      [] t = "datetime" -> "Datetime"
      [] t = "date" -> "Date"
      [] t = "timedelta" -> "Duration"
      [] OTHER -> "none"

\* the dtype predicate of each basic type
pv_TYPE_CHECKERS(t, dtype) ==
    CASE t = "int" -> dtype \in {"Int8", "Int16", "Int32", "Int64",
                                 "UInt8", "UInt16", "UInt32", "UInt64"}
      [] t = "float" -> dtype \in {"Float32", "Float64"}
      [] t = "str" -> dtype = "String"
      [] t = "bool" -> dtype = "Boolean"
      [] t = "datetime" -> dtype = "Datetime"
      [] t = "date" -> dtype = "Date"
      [] t = "timedelta" -> dtype = "Duration"
      [] OTHER -> FALSE

pv_supported(base_type) ==
    base_type \in BasicTypes \cup PolarsDtypeClasses \cup UnionTypes
                  \cup LiteralTypes

\* the dtype check: identity for a dtype class, any member or a string-like
\* column for a union, the member type for a literal set
pv_is_compatible(base_type, dtype) ==
    IF base_type \in PolarsDtypeClasses THEN dtype = base_type
    ELSE IF base_type \in UnionTypes
    THEN \/ dtype \in {"String", "Object"}
         \/ \E k \in 1..Len(union_members(base_type)) :
               pv_TYPE_CHECKERS(union_members(base_type)[k], dtype)
    ELSE IF base_type \in LiteralTypes
    THEN pv_TYPE_CHECKERS(literal_type(base_type), dtype)
    ELSE pv_TYPE_CHECKERS(base_type, dtype)

\* the membership validator: nulls are not looked at
pv_validate_literal(series, validator, col_name) ==
    IF \E i \in 1..Len(series.values) :
          /\ ~series.values[i].isnull
          /\ series.values[i].v \notin validator.min..validator.max
    THEN Raise("ConstraintViolation", col_name, "", "", "literal")
    ELSE Returned

\* Range: a non-null value below min or above max fails
pv_validate_range(series, validator, col_name) ==
    IF \E i \in 1..Len(series.values) :
          /\ ~series.values[i].isnull
          /\ \/ series.values[i].v < validator.min
             \/ series.values[i].v > validator.max
    THEN Raise("ConstraintViolation", col_name, "", "", "range")
    ELSE Returned

\* Unique: a value that appears twice among the non-null cells fails
pv_validate_unique(series, col_name) ==
    IF \E i, j \in 1..Len(series.values) :
          /\ i # j
          /\ ~series.values[i].isnull
          /\ series.values[i] = series.values[j]
    THEN Raise("ConstraintViolation", col_name, "", "", "duplicate")
    ELSE Returned

pv_apply_validator(series, validator, col_name) ==
    IF validator.kind = "Literal"
    THEN pv_validate_literal(series, validator, col_name)
    ELSE IF validator.kind = "Range"
    THEN pv_validate_range(series, validator, col_name)
    ELSE IF validator.kind = "Unique"
    THEN pv_validate_unique(series, col_name)
    ELSE Raise("UnknownValidator", col_name, "", "", validator.kind)

RECURSIVE pv_apply_all(_, _, _, _)
pv_apply_all(series, validators, col_name, k) ==
    IF k > Len(validators) THEN Returned
    ELSE LET r == pv_apply_validator(series, validators[k], col_name)
         IN  IF r.kind # "ok" THEN r
             ELSE pv_apply_all(series, validators, col_name, k + 1)

\* the checks of one declared column: presence, dtype and, when the values
\* are at hand, nulls and validators; a column declared by a dtype class is
\* not checked for nulls
pv_check_column(df, col_name, expected_type, materialized) ==
    LET x == pv_extract_type_and_validators(expected_type)
    IN  IF col_name \notin columns(df)
        THEN IF x.is_required
             THEN Raise("MissingColumn", col_name, "", "", "")
             ELSE Returned
        ELSE LET series == getitem(df, col_name)
             IN  IF ~pv_supported(x.base_type)
                 THEN Raise("UnsupportedType", col_name, x.base_type, "", "")
                 ELSE IF ~pv_is_compatible(x.base_type, series.dtype)
                 THEN Raise("TypeMismatch", col_name,
                            IF x.base_type \in LiteralTypes
                            THEN literal_type(x.base_type) ELSE x.base_type,
                            series.dtype, "")
                 ELSE IF ~materialized THEN Returned
                 ELSE IF /\ x.base_type \notin PolarsDtypeClasses
                         /\ ~x.is_optional
                         /\ null_count(series) > 0
                 THEN Raise("NullabilityViolation", col_name, "", "", "")
                 ELSE pv_apply_all(series, x.validators, col_name, 1)

RECURSIVE pv_validate_from(_, _, _, _)
\* the loop over the type hints from the i-th on
pv_validate_from(df, expected_cols, i, materialized) ==
    IF i > Len(expected_cols) THEN [Returned EXCEPT !.examined = i - 1]
    ELSE LET r == pv_check_column(df, expected_cols[i].name,
                                  expected_cols[i].ann, materialized)
         IN  IF r.kind # "ok" THEN [r EXCEPT !.examined = i]
             ELSE pv_validate_from(df, expected_cols, i + 1, materialized)

\* the columns of the table that the schema does not declare, in table order
pv_extra_columns(df, expected_cols) ==
    LET Undeclared(c) ==
            c.name \notin {expected_cols[i].name : i \in 1..Len(expected_cols)}
        extra == SelectSeq(df, Undeclared)
    IN  [k \in 1..Len(extra) |-> extra[k].name]

pv_result(r, cols) ==
    [kind |-> r.kind, col |-> r.col, expected |-> r.expected,
     actual |-> r.actual, detail |-> r.detail, examined |-> r.examined,
     unexpected |-> cols]

\* the checks on the declared columns, then the strict check
pv_validate(df, S, strict, materialized) ==
    LET r == pv_validate_from(df, S, 1, materialized)
        extra == pv_extra_columns(df, S)
    IN  IF r.kind # "ok" THEN pv_result(r, <<>>)
        ELSE IF strict /\ extra # <<>>
        THEN pv_result([Raise("UnexpectedColumn", "", "", "", "")
                           EXCEPT !.examined = Len(S)], extra)
        ELSE pv_result(r, <<>>)

\* validate_dataframe(df, schema, strict=...)
pv_validate_dataframe(df, S, strict) == pv_validate(df, S, strict, TRUE)

\* lf.collect_schema(): names and dtypes, no values
collect_schema(lf) ==
    [k \in 1..Len(lf.ldf) |-> Column(lf.ldf[k].name, lf.ldf[k].dtype, <<>>)]

\* validate_lazyframe_schema(lf, schema, strict=...): presence and dtype of
\* the declared columns, from the collected schema, and nothing else
pv_validate_lazyframe_schema(lf, S, strict) ==
    pv_validate(collect_schema(lf), S, FALSE, FALSE)

\* DataFrame.__init__ checking the collected schema only, as LazyFrame does
pl_DataFrame_init_shape_only(data, S, strict) ==
    LET self == data
        r == pv_validate(self, S, strict, FALSE)
    IN  [raised |-> r,
         self |-> IF r.kind = "ok" THEN [built |-> TRUE, data |-> self]
                  ELSE NoFrame]

\* DataFrame.__init__ validating every declared column as a required one
pl_DataFrame_init_all_required(data, S, strict) ==
    LET self == data
        R == [k \in 1..Len(S) |->
                [name |-> S[k].name,
                 ann |-> Ann(SelectSeq(S[k].ann.wrap,
                                       LAMBDA w : w # "NotRequired"),
                             S[k].ann.meta, S[k].ann.base)]]
        r == pv_validate_dataframe(self, R, strict)
    IN  [raised |-> r,
         self |-> IF r.kind = "ok" THEN [built |-> TRUE, data |-> self]
                  ELSE NoFrame]

\* DataFrame.__init__ passing strict=False whatever the caller asked
pl_DataFrame_init_lax(data, S, strict) ==
    LET self == data
        r == pv_validate_dataframe(self, S, FALSE)
    IN  [raised |-> r,
         self |-> IF r.kind = "ok" THEN [built |-> TRUE, data |-> self]
                  ELSE NoFrame]

\* DataFrame.__init__(self, data, strict=False) of pavise/polars.py
pl_DataFrame_init(data, S, strict) ==
    LET self == data
        r == pv_validate_dataframe(self, S, strict)
    IN  [raised |-> r,
         self |-> IF r.kind = "ok" THEN [built |-> TRUE, data |-> self]
                  ELSE NoFrame]

NoLazy == [built |-> FALSE, ldf |-> <<>>]

\* LazyFrame.__new__ and __init__ validating the collected data in full
LazyFrame_init_eager(data, S, strict) ==
    LET instance == [built |-> TRUE, ldf |-> data]
        r == pv_validate_dataframe(instance.ldf, S, strict)
    IN  [raised |-> r, self |-> IF r.kind = "ok" THEN instance ELSE NoLazy]

\* LazyFrame.__new__ copies the plan of the source; __init__ validates it
\* from its schema; a raise leaves no object
LazyFrame_init(data, S, strict) ==
    LET instance == [built |-> TRUE, ldf |-> data]
        r == pv_validate_lazyframe_schema(instance, S, strict)
    IN  [raised |-> r, self |-> IF r.kind = "ok" THEN instance ELSE NoLazy]

\* LazyFrame.collect using up the lazy frame when validation fails
LazyFrame_collect_consuming(self, S) ==
    LET df == self.ldf
        r == pl_DataFrame_init(df, S, FALSE)
    IN  [raised |-> r.raised, frame |-> r.self,
         self |-> IF r.raised.kind = "ok" THEN self
                  ELSE [built |-> FALSE, ldf |-> <<>>]]

\* LazyFrame.collect returning the collected table as it is
LazyFrame_collect_unchecked(self, S) ==
    LET df == self.ldf
    IN  [raised |-> pv_result(Returned, <<>>),
         frame |-> [built |-> TRUE, data |-> df],
         self |-> self]

\* LazyFrame.collect validating the collected table in strict mode
LazyFrame_collect_strict(self, S) ==
    LET df == self.ldf
        r == pl_DataFrame_init(df, S, TRUE)
    IN  [raised |-> r.raised, frame |-> r.self, self |-> self]

\* LazyFrame.collect: the plan is run, the result goes through
\* DataFrame[schema](df); the lazy object is not written
LazyFrame_collect(self, S) ==
    LET df == self.ldf
        r == pl_DataFrame_init(df, S, FALSE)
    IN  [raised |-> r.raised, frame |-> r.self, self |-> self]

\* _get_dtype_for_type answering with its default for every basic type
get_dtype_for_type_default(base_type) ==
    IF base_type \in PolarsDtypeClasses THEN base_type
    ELSE "String"

\* _get_dtype_for_type
get_dtype_for_type(base_type) ==
    IF base_type \in PolarsDtypeClasses THEN base_type
    ELSE IF TYPE_TO_DTYPE(base_type) # "none" THEN TYPE_TO_DTYPE(base_type)
    ELSE "String"

\* the dtype _build_empty_columns gives a declaration
empty_dtype(col_type) ==
    LET x == pv_extract_type_and_validators(col_type)
        t1 == IF x.base_type \in UnionTypes
              THEN union_members(x.base_type)[1] ELSE x.base_type
        t2 == IF t1 \in LiteralTypes /\ literal_values(t1) # <<>>
              THEN literal_type(t1) ELSE t1
    IN  get_dtype_for_type(t2)

\* _build_empty_columns leaving out the columns that are not required
build_empty_columns_required(S) ==
    LET Required(h) == pv_extract_type_and_validators(h.ann).is_required
        hints == SelectSeq(S, Required)
    IN  [k \in 1..Len(hints) |->
            Column(hints[k].name, empty_dtype(hints[k].ann), <<>>)]

\* _build_empty_columns: one empty series per type hint, in their order
build_empty_columns(S) ==
    [k \in 1..Len(S) |-> Column(S[k].name, empty_dtype(S[k].ann), <<>>)]

\* DataFrame[S].make_empty()
DataFrame_make_empty(S) == pl_DataFrame_init(build_empty_columns(S), S, FALSE)

\* LazyFrame[S].make_empty()
LazyFrame_make_empty(S) == LazyFrame_init(build_empty_columns(S), S, FALSE)

NoOp == [op |-> "none", strict |-> FALSE]

\* DataFrame[S](table, strict=s)
EagerConstruct ==
    /\ last = NoOp
    /\ \E s \in BOOLEAN :
          LET r == pl_DataFrame_init(table, schema, s)
          IN  /\ outcomes' = Append(outcomes, r.raised)
              /\ frame' = r.self
              /\ last' = [op |-> "eager", strict |-> s]
    /\ UNCHANGED <<backend, schema, table, applied, lazy>>

\* LazyFrame[S](table.lazy(), strict=s)
LazyConstruct ==
    /\ last = NoOp
    /\ \E s \in BOOLEAN :
          LET r == LazyFrame_init(table, schema, s)
          IN  /\ outcomes' = Append(outcomes, r.raised)
              /\ lazy' = r.self
              /\ last' = [op |-> "lazy", strict |-> s]
    /\ UNCHANGED <<backend, schema, table, applied, frame>>

\* lf.collect() on the typed lazy frame
Collect ==
    /\ lazy.built
    /\ Len(outcomes) < 1 + MaxCollects
    /\ LET r == LazyFrame_collect(lazy, schema)
       IN  /\ outcomes' = Append(outcomes, r.raised)
           /\ frame' = r.frame
           /\ lazy' = r.self
           /\ last' = [op |-> "collect", strict |-> FALSE]
    /\ UNCHANGED <<backend, schema, table, applied>>

\* DataFrame[S].make_empty()
MakeEmpty ==
    /\ last = NoOp
    /\ LET r == DataFrame_make_empty(schema)
       IN  /\ outcomes' = Append(outcomes, r.raised)
           /\ frame' = r.self
           /\ last' = [op |-> "make_empty", strict |-> FALSE]
    /\ UNCHANGED <<backend, schema, table, applied, lazy>>

\* LazyFrame[S].make_empty()
LazyMakeEmpty ==
    /\ last = NoOp
    /\ LET r == LazyFrame_make_empty(schema)
       IN  /\ outcomes' = Append(outcomes, r.raised)
           /\ lazy' = r.self
           /\ last' = [op |-> "lazy_make_empty", strict |-> FALSE]
    /\ UNCHANGED <<backend, schema, table, applied, frame>>

\* the declarations of the first column
PvDecls ==
    {Plain(t) : t \in BasicTypes}
    \cup {OptionalOf("int"), OptionalOf("str")}
    \cup {Annotated("int", <<Unique>>), Annotated("int", <<Range(0, 0)>>),
          AnnotatedOptional("int", <<Unique>>)}
    \cup {NotRequired("int"), NotRequiredOptional("str"),
          Ann(<<"NotRequired", "Annotated">>, <<Range(0, 0)>>, "int")}
    \cup {Plain(t) : t \in UnionTypes \cup LiteralTypes}
    \cup {Plain("Int64"), Plain("Categorical")}

\* the declarations of the second column
PvTailDecls == {Plain("int"), NotRequired("int")}

PvSchemas ==
    {<<[name |-> "a", ann |-> d]>> : d \in PvDecls}
    \cup {<<[name |-> "a", ann |-> d], [name |-> "b", ann |-> e]>> :
            d \in PvDecls, e \in PvTailDecls}

PvTables ==
    LET firsts == {<<>>} \cup {<<c>> : c \in
                     Columns("polars", "a", {"Int64", "String", "Float64"},
                             Cells(MaxVal), MaxRows)}
        seconds == {<<>>} \cup {<<c>> : c \in TailColumns("polars")}
        thirds == {<<>>, <<Column("x", "String", <<Cell(0)>>)>>}
    IN  {f \o g \o h : f \in firsts, g \in seconds, h \in thirds}

InitPavise ==
    /\ backend = "polars"
    /\ schema \in PvSchemas
    /\ table \in PvTables
    /\ outcomes = <<>>
    /\ frame = NoFrame
    /\ applied = NotApplied
    /\ lazy = NoLazy
    /\ last = NoOp

NextPavise ==
    EagerConstruct \/ LazyConstruct \/ Collect \/ MakeEmpty \/ LazyMakeEmpty

SpecPavise == InitPavise /\ [][NextPavise]_vars

-----------------------------------------------------------------------------
(* What a declaration and a table mean, as the specification words it *)

DeclBase(ann) == ann.base

DeclNullable(ann) == \E k \in 1..Len(ann.wrap) : ann.wrap[k] = "Optional"

DeclValidators(ann) == ann.meta

Present(i) == schema[i].name \in columns(table)

ColumnOf(i) == getitem(table, schema[i].name)

\* the dtypes that represent a basic base type in each backend
DtypesOf(b, t) ==
    IF b = "polars"
    THEN CASE t = "int" -> {"Int8", "Int16", "Int32", "Int64",
                            "UInt8", "UInt16", "UInt32", "UInt64"}
           [] t = "float" -> {"Float32", "Float64"}
           [] t = "str" -> {"String"}
           [] t = "bool" -> {"Boolean"}
           [] t = "datetime" -> {"Datetime"}
           [] t = "date" -> {"Date"}
           [] t = "timedelta" -> {"Duration"}
           [] t = "Int64" -> {"Int64"}
           [] t = "Categorical" -> {"Categorical"}
           [] OTHER -> {}
    ELSE CASE t = "int" -> {"int64", "Int64"}
           [] t = "float" -> {"float64"}
           [] t = "str" -> {"object", "category"}
           [] t = "bool" -> {"bool"}
           [] t = "datetime" -> {"datetime64[ns]"}
           [] t = "date" -> {"datetime64[ns]"}
           [] t = "timedelta" -> {"timedelta64[ns]"}
           [] t = "Int64Dtype" -> {"Int64"}
           [] t = "CategoricalDtype" -> {"category"}
           [] OTHER -> {}

\* a float column standing in for a nullable int column of pandas
StandsIn(b, ann, dtype) ==
    b = "pandas" /\ DeclNullable(ann) /\ DeclBase(ann) = "int"
    /\ dtype = "float64"

DtypeCompatible(b, ann, dtype) ==
    dtype \in DtypesOf(b, DeclBase(ann)) \/ StandsIn(b, ann, dtype)

NonNull(vs) == {i \in 1..Len(vs) : ~vs[i].isnull}

InRange(vs, r) == \A i \in NonNull(vs) : r.min <= vs[i].v /\ vs[i].v <= r.max

Distinct(vs) == \A i, j \in NonNull(vs) : i # j => vs[i].v # vs[j].v

Satisfied(vs, validator) ==
    IF validator.kind = "Range" THEN InRange(vs, validator)
    ELSE Distinct(vs)

\* every required declared column is present with a compatible dtype, has no
\* null unless it is nullable, and satisfies its validators
Conforms ==
    \A i \in 1..Len(schema) :
        /\ Present(i)
        /\ DtypeCompatible(backend, schema[i].ann, ColumnOf(i).dtype)
        /\ DeclNullable(schema[i].ann) \/ null_count(ColumnOf(i)) = 0
        /\ \A k \in 1..Len(DeclValidators(schema[i].ann)) :
              Satisfied(ColumnOf(i).values, DeclValidators(schema[i].ann)[k])

Calls == 1..Len(outcomes)

\* the columns declared before the i-th pass all their checks
EarlierPass(i) ==
    validate_dataframe(backend, table, SubSeq(schema, 1, i - 1)).kind = "ok"

-----------------------------------------------------------------------------
(* Claims *)

\* C1: a table in which every declared column is present with a compatible
\* dtype, no non-nullable column has a null and every attached validator is
\* satisfied is validated without an error.
C1_ConformingTableAccepted ==
    \A c \in Calls : Conforms => outcomes[c].kind = "ok"

\* C2: when a required column c is absent and every column declared before
\* it passes, the call raises a missing-column error that names c, and the
\* loop stops at c: no later column is examined or reported.
C2_MissingColumnFirstFailure ==
    \A c \in Calls : \A i \in 1..Len(schema) :
        (~Present(i) /\ EarlierPass(i))
            => /\ outcomes[c].kind = "MissingColumn"
               /\ outcomes[c].col = schema[i].name
               /\ outcomes[c].examined = i

\* a call raised for a missing first column while the second column, declared
\* after it, is present with a dtype its declaration does not accept
C2_Witness ==
    /\ Len(schema) = 2 /\ Len(outcomes) > 0
    /\ ~Present(1) /\ Present(2)
    /\ ~DtypeCompatible(backend, schema[2].ann, ColumnOf(2).dtype)
    /\ outcomes[1].kind = "MissingColumn" /\ outcomes[1].col = "a"

\* C3: a declared column of a basic base type that is present with a dtype
\* not compatible with that type is never accepted, and when the columns
\* before it pass the error is a type mismatch naming the column, the
\* expected base type and the actual dtype.
C3_IncompatibleDtypeRejected ==
    \A c \in Calls : \A i \in 1..Len(schema) :
        (/\ Present(i)
         /\ DeclBase(schema[i].ann) \in BasicTypes
         /\ ~DtypeCompatible(backend, schema[i].ann, ColumnOf(i).dtype))
            => /\ outcomes[c].kind # "ok"
               /\ EarlierPass(i)
                    => /\ outcomes[c].kind = "TypeMismatch"
                       /\ outcomes[c].col = schema[i].name
                       /\ outcomes[c].expected = DeclBase(schema[i].ann)
                       /\ outcomes[c].actual = ColumnOf(i).dtype

\* C4: a successful typed construction yields exactly the input table
\* (names, order, dtypes, values, undeclared columns included), and no call,
\* passing or failing, changes the input table or the schema.
C4_ValidationOnlyInspects ==
    [][/\ frame'.built => frame'.data = table
       /\ table' = table
       /\ schema' = schema]_vars

\* a construction succeeded on a table that has a column the schema does not
\* declare
C4_Witness ==
    /\ frame.built
    /\ \E k \in 1..Len(table) :
          table[k].name \notin {schema[i].name : i \in 1..Len(schema)}

TheValidator == schema[1].ann.meta[1]

TheSeries == table[1]

WasApplied == applied # NotApplied

\* C6: Range raises a constraint error naming the column exactly when some
\* non-null value is below min or above max; min and max themselves pass and
\* nulls never fail.
C6_RangeInclusive ==
    (WasApplied /\ TheValidator.kind = "Range")
        => IF InRange(TheSeries.values, TheValidator)
           THEN applied.kind = "ok"
           ELSE /\ applied.kind = "ConstraintViolation"
                /\ applied.col = TheSeries.name
                /\ applied.detail = "range"

\* Range passed a series that holds its min, its max and a null
C6_Witness ==
    /\ WasApplied /\ TheValidator.kind = "Range"
    /\ TheValidator.min < TheValidator.max
    /\ applied.kind = "ok"
    /\ \E i, j, k \in 1..Len(TheSeries.values) :
          /\ TheSeries.values[i] = Cell(TheValidator.min)
          /\ TheSeries.values[j] = Cell(TheValidator.max)
          /\ TheSeries.values[k].isnull

\* C7: on a column without nulls Unique raises a constraint error naming the
\* column (duplicate values) exactly when some value occurs more than once.
C7_UniqueWithoutNulls ==
    (WasApplied /\ TheValidator.kind = "Unique" /\ null_count(TheSeries) = 0)
        => IF Distinct(TheSeries.values)
           THEN applied.kind = "ok"
           ELSE /\ applied.kind = "ConstraintViolation"
                /\ applied.col = TheSeries.name
                /\ applied.detail = "duplicate"

\* Unique rejected a null-free series whose first and last values are equal
\* and not adjacent
C7_Witness ==
    /\ WasApplied /\ TheValidator.kind = "Unique"
    /\ null_count(TheSeries) = 0
    /\ Len(TheSeries.values) >= 3
    /\ TheSeries.values[1] = TheSeries.values[Len(TheSeries.values)]
    /\ TheSeries.values[1] # TheSeries.values[2]
    /\ applied.kind = "ConstraintViolation"

\* C8: Unique counts duplicates among non-null entries only: a column with
\* two or more nulls and pairwise distinct non-null values passes.
C8_UniqueIgnoresNulls ==
    (/\ WasApplied /\ TheValidator.kind = "Unique"
     /\ null_count(TheSeries) >= 2
     /\ Distinct(TheSeries.values))
        => applied.kind = "ok"

\* C9: polars raises the non-optional-but-null error for a column of a basic
\* base type with a compatible dtype exactly when the declaration is not
\* nullable and the column has a null; a nullable declaration is never
\* rejected for its nulls, and without validators the column is accepted.
C9_PolarsNullability ==
    \A c \in Calls : \A i \in 1..Len(schema) :
        (/\ backend = "polars"
         /\ Present(i)
         /\ DeclBase(schema[i].ann) \in BasicTypes
         /\ DtypeCompatible(backend, schema[i].ann, ColumnOf(i).dtype)
         /\ EarlierPass(i))
            => /\ (outcomes[c].kind = "NullabilityViolation"
                   /\ outcomes[c].col = schema[i].name)
                  <=> (~DeclNullable(schema[i].ann)
                       /\ null_count(ColumnOf(i)) > 0)
               /\ (DeclNullable(schema[i].ann) /\ outcomes[c].examined = i
                   /\ outcomes[c].kind # "ok")
                  => /\ outcomes[c].kind = "ConstraintViolation"
                     /\ DeclValidators(schema[i].ann) # <<>>

\* polars accepted a table whose only declared column is Optional and holds
\* a null
C9_Witness ==
    /\ backend = "polars" /\ Len(schema) = 1 /\ Len(outcomes) > 0
    /\ Present(1)
    /\ DeclNullable(schema[1].ann)
    /\ null_count(ColumnOf(1)) > 0
    /\ outcomes[1].kind = "ok"

\* C10: pandas rejects every column declared with a basic base type and not
\* Optional that holds a null, naming the column when the columns before it
\* pass.
C10_PandasRejectsNulls ==
    \A c \in Calls : \A i \in 1..Len(schema) :
        (/\ backend = "pandas"
         /\ Present(i)
         /\ DeclBase(schema[i].ann) \in BasicTypes
         /\ ~DeclNullable(schema[i].ann)
         /\ null_count(ColumnOf(i)) > 0)
            => /\ outcomes[c].kind # "ok"
               /\ EarlierPass(i) => outcomes[c].col = schema[i].name

-----------------------------------------------------------------------------
(* C11 *)

\* C11: in both backends a column declared Optional[T], T a basic type, whose
\* dtype is neither compatible with T nor one of the documented stand-ins
\* (pandas: float for int, object for str) is rejected with a type mismatch
\* that names the column, whenever the columns declared before it pass.
C11_OptionalKeepsDtypeCheck ==
    \A c \in Calls : \A i \in 1..Len(schema) :
        ( /\ Present(i)
          /\ DeclBase(schema[i].ann) \in BasicTypes
          /\ DeclNullable(schema[i].ann)
          /\ ~DtypeCompatible(backend, schema[i].ann, ColumnOf(i).dtype)
          /\ EarlierPass(i) )
        => /\ outcomes[c].kind = "TypeMismatch"
           /\ outcomes[c].col = schema[i].name

-----------------------------------------------------------------------------
(* C12 *)

FloatDtypes(b) == IF b = "polars" THEN {"Float64"} ELSE {"float64"}

\* a float column under a declared int
FloatForInt(i) ==
    /\ Present(i)
    /\ DeclBase(schema[i].ann) = "int"
    /\ ColumnOf(i).dtype \in FloatDtypes(backend)

\* an object column holding a null under a declared str
ObjectForStr(i) ==
    /\ Present(i)
    /\ DeclBase(schema[i].ann) = "str"
    /\ ColumnOf(i).dtype = "object"
    /\ null_count(ColumnOf(i)) > 0

MismatchAt(c, i) ==
    outcomes[c].kind = "TypeMismatch" /\ outcomes[c].col = schema[i].name

\* C12 as stated: in pandas a float column passes the dtype check of a
\* declared int, and an object column that of a declared str, whether or not
\* the declaration is Optional.
C12_LeniencyWithoutOptional ==
    \A c \in Calls : \A i \in 1..Len(schema) :
        ( /\ backend = "pandas"
          /\ FloatForInt(i) \/ ObjectForStr(i)
          /\ EarlierPass(i) )
        => ~MismatchAt(c, i)

\* C12 amended: in pandas a float column under a declared int, and an object
\* column holding nulls under a declared str, pass the dtype check exactly
\* when the declaration is Optional and are a type mismatch naming the column
\* otherwise; in polars a float column under a declared int is a type
\* mismatch whether or not the declaration is Optional.
C12_LeniencyNeedsOptional ==
    \A c \in Calls : \A i \in 1..Len(schema) :
        EarlierPass(i) =>
            /\ ( backend = "pandas" /\ (FloatForInt(i) \/ ObjectForStr(i)) )
               => (MismatchAt(c, i) <=> ~DeclNullable(schema[i].ann))
            /\ ( backend = "polars" /\ FloatForInt(i) ) => MismatchAt(c, i)

\* an Optional[int] declaration of pandas accepted a float column with a null
C12_Witness ==
    /\ backend = "pandas"
    /\ Len(schema) = 1
    /\ schema[1].ann = OptionalOf("int")
    /\ FloatForInt(1)
    /\ null_count(ColumnOf(1)) > 0
    /\ Len(outcomes) > 0
    /\ outcomes[1].kind = "ok"

-----------------------------------------------------------------------------
(* C13 *)

\* the name the error message gives the dtype of a column
ActualName(b, dtype) == IF b = "polars" THEN dtype ELSE pd_type_of(dtype)

\* C13: under a backend-native dtype declaration a present column is a type
\* mismatch, naming the column, the declared dtype and the column's concrete
\* dtype, exactly when its dtype is not the declared dtype type itself;
\* another dtype of the same family does not pass.
C13_NativeDtypeIdentity ==
    \A c \in Calls : \A i \in 1..Len(schema) :
        ( /\ Present(i)
          /\ DeclBase(schema[i].ann) \in NativeTypes(backend)
          /\ EarlierPass(i) )
        => IF ColumnOf(i).dtype \in DtypesOf(backend, DeclBase(schema[i].ann))
           THEN ~MismatchAt(c, i)
           ELSE /\ MismatchAt(c, i)
                /\ outcomes[c].expected = DeclBase(schema[i].ann)
                /\ outcomes[c].actual
                      = ActualName(backend, ColumnOf(i).dtype)

\* an Int64Dtype declaration of pandas rejected a numpy int64 column
C13_Witness ==
    /\ backend = "pandas"
    /\ schema[1].ann = Plain("Int64Dtype")
    /\ Present(1)
    /\ ColumnOf(1).dtype = "int64"
    /\ Len(outcomes) > 0
    /\ MismatchAt(1, 1)
    /\ outcomes[1].expected = "Int64Dtype"
    /\ outcomes[1].actual = "Int64DType"

-----------------------------------------------------------------------------
(* Whole-table validation of a schema whose first column is a union *)

UnionSchemas ==
    {<<[name |-> "a", ann |-> Plain(u)]>> : u \in UnionTypes}
    \cup {<<[name |-> "a", ann |-> Plain(u)], [name |-> "b", ann |-> e]>> :
            u \in UnionTypes, e \in TailDecls}

InitUnion ==
    /\ backend \in Backends
    /\ schema \in UnionSchemas
    /\ table \in Tables(backend)
    /\ outcomes = <<>>
    /\ frame = NoFrame
    /\ applied = NotApplied
    /\ lazy = NoLazy
    /\ last = NoOp

SpecUnion == InitUnion /\ [][Next]_vars

-----------------------------------------------------------------------------
(* Whole-table validation of a schema whose first column is declared Any *)

AnySchemas ==
    {<<[name |-> "a", ann |-> Plain("Any")]>>}
    \cup {<<[name |-> "a", ann |-> Plain("Any")], [name |-> "b", ann |-> e]>> :
            e \in TailDecls}

InitAny ==
    /\ backend \in Backends
    /\ schema \in AnySchemas
    /\ table \in Tables(backend)
    /\ outcomes = <<>>
    /\ frame = NoFrame
    /\ applied = NotApplied
    /\ lazy = NoLazy
    /\ last = NoOp

SpecAny == InitAny /\ [][Next]_vars

-----------------------------------------------------------------------------
(* Whole-table validation of a column declared with both wrappers, in     *)
(* either nesting order                                                   *)

OptionalAnnotated(b, m) == Ann(<<"Optional", "Annotated">>, m, b)

NestingDecls ==
    {AnnotatedOptional("int", m) : m \in Metas(MaxVal)}
    \cup {OptionalAnnotated("int", m) : m \in Metas(MaxVal)}

InitNesting ==
    /\ backend \in Backends
    /\ schema \in {<<[name |-> "a", ann |-> d]>> : d \in NestingDecls}
    /\ table \in Tables(backend)
    /\ outcomes = <<>>
    /\ frame = NoFrame
    /\ applied = NotApplied
    /\ lazy = NoLazy
    /\ last = NoOp

SpecNesting == InitNesting /\ [][Next]_vars

-----------------------------------------------------------------------------
(* Whole-table validation of a column that carries a validator object     *)
(* which is neither a Range nor a Unique                                  *)

OtherValidator == [kind |-> "Other", min |-> 0, max |-> 0]

UnknownMetas ==
    {<<OtherValidator>>, <<OtherValidator, Unique>>, <<Unique, OtherValidator>>}
    \cup {<<OtherValidator, r>> : r \in Ranges(MaxVal)}
    \cup {<<r, OtherValidator>> : r \in Ranges(MaxVal)}
    \cup {<<r, OtherValidator, Unique>> : r \in Ranges(MaxVal)}

\* the declarations with such a validator, and one without for comparison
UnknownDecls ==
    {Annotated("int", m) : m \in UnknownMetas \cup {<<Unique>>}}
    \cup {AnnotatedOptional("int", m) : m \in UnknownMetas}

InitUnknown ==
    /\ backend \in Backends
    /\ schema \in {<<[name |-> "a", ann |-> d]>> : d \in UnknownDecls}
    /\ table \in Tables(backend)
    /\ outcomes = <<>>
    /\ frame = NoFrame
    /\ applied = NotApplied
    /\ lazy = NoLazy
    /\ last = NoOp

SpecUnknown == InitUnknown /\ [][Next]_vars

-----------------------------------------------------------------------------
(* Whole-table validation of a column declared with a dtype class of the  *)
(* backend, with and without validators                                   *)

NativeInt(b) == IF b = "polars" THEN "Int64" ELSE "Int64Dtype"

NativeDecls(b) ==
    {Plain(t) : t \in NativeTypes(b)}
    \cup {Annotated(NativeInt(b), m) : m \in Metas(MaxVal)}

NativeSchemas(b) ==
    {<<[name |-> "a", ann |-> d]>> : d \in NativeDecls(b)}
    \cup {<<[name |-> "a", ann |-> d], [name |-> "b", ann |-> e]>> :
            d \in NativeDecls(b), e \in TailDecls}

InitNative ==
    /\ backend \in Backends
    /\ schema \in NativeSchemas(backend)
    /\ table \in Tables(backend)
    /\ outcomes = <<>>
    /\ frame = NoFrame
    /\ applied = NotApplied
    /\ lazy = NoLazy
    /\ last = NoOp

SpecNative == InitNative /\ [][Next]_vars

-----------------------------------------------------------------------------
(* The pavise declarations, as the specification words them *)

DeclRequired(ann) == \A k \in 1..Len(ann.wrap) : ann.wrap[k] # "NotRequired"

\* the declaration without its not-required mark
AsRequired(ann) ==
    Ann(SelectSeq(ann.wrap, LAMBDA w : w # "NotRequired"), ann.meta, ann.base)

PvNullable(ann) == DeclNullable(ann) \/ ann.base = "Union[int,str,None]"

\* the dtypes compatible with a base type of the polars backend
PvDtypesOf(base) ==
    CASE base \in {"Union[int,str]", "Union[str,int]", "Union[int,str,None]"}
            -> {"String", "Object"} \cup DtypesOf("polars", "int")
               \cup DtypesOf("polars", "str")
      [] base = "Literal[0]" -> DtypesOf("polars", "int")
      [] base = "Literal[s0]" -> DtypesOf("polars", "str")
      [] OTHER -> DtypesOf("polars", base)

\* the values of a literal set
LiteralMembers(base) == {0}

\* column h of the schema is as declared in table df
PvColumnConforms(df, h) ==
    IF h.name \notin columns(df) THEN ~DeclRequired(h.ann)
    ELSE LET c == getitem(df, h.name)
         IN  /\ c.dtype \in PvDtypesOf(h.ann.base)
             /\ \/ PvNullable(h.ann)
                \/ h.ann.base \in {"Int64", "Categorical"}
                \/ null_count(c) = 0
             /\ \A k \in 1..Len(h.ann.meta) :
                   Satisfied(c.values, h.ann.meta[k])
             /\ h.ann.base \in {"Literal[0]", "Literal[s0]"}
                => \A r \in NonNull(c.values) :
                      c.values[r].v \in LiteralMembers(h.ann.base)

\* column h passes the checks that need no values: presence and dtype
PvColumnShapeOk(df, h) ==
    IF h.name \notin columns(df) THEN ~DeclRequired(h.ann)
    ELSE getitem(df, h.name).dtype \in PvDtypesOf(h.ann.base)

\* the names of the columns of df that schema S does not declare
UnexpectedColumns(df, S) ==
    LET Extra(c) == \A i \in 1..Len(S) : S[i].name # c.name
        extra == SelectSeq(df, Extra)
    IN  [k \in 1..Len(extra) |-> extra[k].name]

\* two outcomes are the same return or the same error
SameError(o1, o2) ==
    /\ o1.kind = o2.kind
    /\ o1.col = o2.col
    /\ o1.expected = o2.expected
    /\ o1.actual = o2.actual
    /\ o1.detail = o2.detail
    /\ o1.unexpected = o2.unexpected

SchemaWithout(i) == SubSeq(schema, 1, i - 1) \o SubSeq(schema, i + 1, Len(schema))

LastOutcome == outcomes[Len(outcomes)]

-----------------------------------------------------------------------------
(* C14 *)

\* C14: for a column declared NotRequired[T], a table that omits the column is
\* validated as if the schema did not declare it, and no error names it; when
\* the column is present the outcome is the one the schema with a required
\* T gives: a String column under NotRequired[int] is a type mismatch naming
\* the column, and nulls under NotRequired[Optional[T]] are no nullability
\* error.
C14_NotRequired ==
    last.op = "eager" =>
        \A i \in 1..Len(schema) :
            ~DeclRequired(schema[i].ann) =>
                IF Present(i)
                THEN /\ SameError(outcomes[1],
                          pv_validate_dataframe(table,
                              [schema EXCEPT ![i].ann = AsRequired(schema[i].ann)],
                              last.strict))
                     /\ ( /\ \A j \in 1..(i - 1) :
                                PvColumnConforms(table, schema[j])
                          /\ schema[i].ann.base = "int"
                          /\ ColumnOf(i).dtype = "String" )
                        => /\ outcomes[1].kind = "TypeMismatch"
                           /\ outcomes[1].col = schema[i].name
                     /\ PvNullable(schema[i].ann)
                        => ~( /\ outcomes[1].kind = "NullabilityViolation"
                              /\ outcomes[1].col = schema[i].name )
                ELSE /\ SameError(outcomes[1],
                          pv_validate_dataframe(table, SchemaWithout(i),
                                                last.strict))
                     /\ outcomes[1].col # schema[i].name

\* a table without the NotRequired[int] column b was accepted
C14_Witness ==
    /\ last.op = "eager"
    /\ Len(schema) = 2
    /\ schema[2].ann = NotRequired("int")
    /\ ~Present(2)
    /\ Present(1)
    /\ outcomes[1].kind = "ok"
    /\ frame.built

-----------------------------------------------------------------------------
(* C15 *)

\* C15: a construction with strict=False is not affected by the columns the
\* schema does not declare; with strict=True a violation in a declared column
\* is reported as with strict=False, and otherwise the construction raises
\* the unexpected-columns error with the full list of undeclared table
\* columns when there is one, and passes when there is none.
C15_StrictMode ==
    last.op = "eager" =>
        LET declared == pv_validate_dataframe(table, schema, FALSE)
            extra == UnexpectedColumns(table, schema)
        IN  /\ ~last.strict
               => /\ outcomes[1].kind # "UnexpectedColumn"
                  /\ (\A i \in 1..Len(schema) :
                         PvColumnConforms(table, schema[i]))
                     => outcomes[1].kind = "ok" /\ frame.data = table
            /\ last.strict
               => IF declared.kind # "ok"
                  THEN SameError(outcomes[1], declared)
                  ELSE IF extra # <<>>
                  THEN /\ outcomes[1].kind = "UnexpectedColumn"
                       /\ outcomes[1].unexpected = extra
                       /\ ~frame.built
                  ELSE outcomes[1].kind = "ok" /\ frame.built

\* a strict construction raised on the two undeclared columns b and x
C15_Witness ==
    /\ last.op = "eager"
    /\ last.strict
    /\ Len(schema) = 1
    /\ Present(1)
    /\ outcomes[1].kind = "UnexpectedColumn"
    /\ outcomes[1].unexpected = <<"b", "x">>

-----------------------------------------------------------------------------
(* C16 *)

\* the first declared column that fails presence or dtype, 0 when none does
FirstShapeFailure(df) ==
    IF \A i \in 1..Len(schema) : PvColumnShapeOk(df, schema[i]) THEN 0
    ELSE CHOOSE i \in 1..Len(schema) :
            /\ ~PvColumnShapeOk(df, schema[i])
            /\ \A j \in 1..(i - 1) : PvColumnShapeOk(df, schema[j])

-----------------------------------------------------------------------------
(* C17 *)

\* the first declared column of df that is not as declared, 0 when none
FirstViolation(df) ==
    IF \A i \in 1..Len(schema) : PvColumnConforms(df, schema[i]) THEN 0
    ELSE CHOOSE i \in 1..Len(schema) :
            /\ ~PvColumnConforms(df, schema[i])
            /\ \A j \in 1..(i - 1) : PvColumnConforms(df, schema[j])

\* C17: after collect(), an eager table was returned only if the collected
\* data is as the schema declares in every column (presence, dtype,
\* nullability, validators), and it is that data; when the collected data
\* breaks nullability or a value validator, collect() returned nothing and
\* raised an error naming the first such column.
C17_CollectValidatesFully ==
    last.op = "collect" =>
        LET o == LastOutcome
            i == FirstViolation(lazy.ldf)
        IN  /\ frame.built
               => /\ o.kind = "ok"
                  /\ frame.data = lazy.ldf
                  /\ \A k \in 1..Len(schema) :
                        PvColumnConforms(frame.data, schema[k])
            /\ i # 0
               => /\ ~frame.built
                  /\ o.col = schema[i].name
                  /\ o.kind \in {"NullabilityViolation", "ConstraintViolation"}

\* collect() raised on the out-of-set value of a Literal column that the
\* construction had let through
C17_Witness ==
    /\ last.op = "collect"
    /\ schema[1].ann = Plain("Literal[s0]")
    /\ outcomes[1].kind = "ok"
    /\ LastOutcome.kind = "ConstraintViolation"
    /\ LastOutcome.col = "a"
    /\ ~frame.built

-----------------------------------------------------------------------------
(* C18 *)

-----------------------------------------------------------------------------
(* C19 *)

\* the canonical dtype of a base type
CanonicalDtype(base) ==
    CASE base = "int" -> "Int64"
      [] base = "float" -> "Float64"
      [] base = "str" -> "String"
      [] base = "bool" -> "Boolean"
      [] base = "datetime" -> "Datetime"
      [] base = "date" -> "Date"
      [] base = "timedelta" -> "Duration"
      [] base \in {"Union[int,str]", "Union[int,str,None]"} -> "Int64"
      [] base = "Union[str,int]" -> "String"
      [] base = "Literal[0]" -> "Int64"
      [] base = "Literal[s0]" -> "String"
      [] OTHER -> base

-----------------------------------------------------------------------------
(* C20 *)

\* the dtypes that hold values of any type
StringLike(b) == IF b = "polars" THEN {"String", "Object"} ELSE {"object"}

\* C20: a present column declared with a union base type, whose dtype is
\* string-like or compatible with one of the members and which holds no null
\* unless the union has a None arm, is not rejected: no error names it.
C20_UnionAccepted ==
    \A c \in Calls :
        ( /\ schema[1].ann.base \in UnionTypes
          /\ Present(1)
          /\ \/ ColumnOf(1).dtype \in StringLike(backend)
             \/ \E k \in 1..Len(union_members(schema[1].ann.base)) :
                   ColumnOf(1).dtype
                     \in DtypesOf(backend, union_members(schema[1].ann.base)[k])
          /\ PvNullable(schema[1].ann) \/ null_count(ColumnOf(1)) = 0 )
        => outcomes[c].col # schema[1].name

-----------------------------------------------------------------------------
(* C21 *)

\* the base type of the members of a literal set
LiteralMemberType(base) == IF base = "Literal[0]" THEN "int" ELSE "str"

\* C21: for a present column declared with a literal set, the columns before
\* it being as declared: an eager or a lazy construction raises a type
\* mismatch naming the column and the member type when the dtype is not one
\* of the member type; and when the dtype is one and the column passes the
\* nullability step, an eager construction raises a constraint error naming
\* the column exactly when some non-null value is not a member of the set.
C21_LiteralSet ==
    last.op \in {"eager", "lazy"} =>
        \A i \in 1..Len(schema) :
            ( /\ schema[i].ann.base \in {"Literal[0]", "Literal[s0]"}
              /\ Present(i)
              /\ \A j \in 1..(i - 1) : PvColumnConforms(table, schema[j]) )
            => IF ColumnOf(i).dtype
                    \notin DtypesOf("polars",
                                    LiteralMemberType(schema[i].ann.base))
               THEN /\ outcomes[1].kind = "TypeMismatch"
                    /\ outcomes[1].col = schema[i].name
                    /\ outcomes[1].expected
                          = LiteralMemberType(schema[i].ann.base)
               ELSE ( /\ last.op = "eager"
                      /\ PvNullable(schema[i].ann)
                         \/ null_count(ColumnOf(i)) = 0 )
                    => ( ( /\ outcomes[1].kind = "ConstraintViolation"
                           /\ outcomes[1].col = schema[i].name )
                         <=> \E r \in NonNull(ColumnOf(i).values) :
                                ColumnOf(i).values[r].v
                                  \notin LiteralMembers(schema[i].ann.base) )

\* an eager construction raised on a string column holding a member and a
\* value that is not one
C21_Witness ==
    /\ last.op = "eager"
    /\ schema[1].ann = Plain("Literal[s0]")
    /\ Present(1)
    /\ ColumnOf(1).dtype = "String"
    /\ ColumnOf(1).values = <<Cell(0), Cell(1)>>
    /\ outcomes[1].kind = "ConstraintViolation"
    /\ outcomes[1].col = "a"

-----------------------------------------------------------------------------
(* C22 *)

\* C22: a present column declared Any is never the column an error names,
\* whatever its dtype, and the outcome of the validation is that of the
\* columns declared after it.
C22_AnyAccepted ==
    \A c \in Calls :
        ( schema[1].ann.base = "Any" /\ Present(1) )
        => /\ outcomes[c].col # schema[1].name
           /\ outcomes[c].kind
                = validate_dataframe(backend, table, Tail(schema)).kind

-----------------------------------------------------------------------------
(* C23 *)

\* the first validator of column i, in declaration order, that fails on it;
\* 0 when none does
FirstFailingValidator(i) ==
    LET meta == DeclValidators(schema[i].ann)
        Fails(k) == pl_apply_validator(ColumnOf(i), meta[k],
                                       schema[i].name).kind # "ok"
    IN  IF \A k \in 1..Len(meta) : ~Fails(k) THEN 0
        ELSE CHOOSE k \in 1..Len(meta) :
                Fails(k) /\ \A m \in 1..(k - 1) : ~Fails(m)

\* what the first failing check of column i reports, the checks taken in the
\* order presence, dtype, nullability, validators; "ok" when none fails
FirstFailureOfColumn(i) ==
    LET ann == schema[i].ann
    IN  IF ~Present(i) THEN <<"MissingColumn", "">>
        ELSE IF \/ DeclBase(ann) \in NativeTypes("polars")
                   /\ ColumnOf(i).dtype # DeclBase(ann)
                \/ DeclBase(ann) \in BasicTypes
                   /\ ~pl_TYPE_CHECKERS(DeclBase(ann), ColumnOf(i).dtype)
        THEN <<"TypeMismatch", "">>
        ELSE IF /\ DeclBase(ann) \in BasicTypes
                /\ ~DeclNullable(ann)
                /\ null_count(ColumnOf(i)) > 0
        THEN <<"NullabilityViolation", "">>
        ELSE IF FirstFailingValidator(i) = 0 THEN <<"ok", "">>
        ELSE <<"ConstraintViolation",
               IF DeclValidators(ann)[FirstFailingValidator(i)].kind = "Range"
               THEN "range" ELSE "duplicate">>

\* the first declared column one of whose checks fails, 0 when none does
FirstFailingColumn ==
    IF \A i \in 1..Len(schema) : FirstFailureOfColumn(i)[1] = "ok" THEN 0
    ELSE CHOOSE i \in 1..Len(schema) :
            /\ FirstFailureOfColumn(i)[1] # "ok"
            /\ \A j \in 1..(i - 1) : FirstFailureOfColumn(j)[1] = "ok"

\* C23: in the polars backend every validation call ends with the one error
\* of the first failing check in the order: columns in declaration order,
\* and within a column presence, dtype, nullability, then the validators in
\* their order; it names that column, and the loop has visited no column
\* after it.  When no check fails the call returns and has visited them all.
C23_FailFastOrder ==
    backend = "polars" =>
        \A c \in Calls :
            IF FirstFailingColumn = 0
            THEN /\ outcomes[c].kind = "ok"
                 /\ outcomes[c].examined = Len(schema)
            ELSE /\ outcomes[c].kind
                      = FirstFailureOfColumn(FirstFailingColumn)[1]
                 /\ outcomes[c].detail
                      = FirstFailureOfColumn(FirstFailingColumn)[2]
                 /\ outcomes[c].col = schema[FirstFailingColumn].name
                 /\ outcomes[c].examined = FirstFailingColumn

\* a table with a null and a value out of range in its first column, and
\* without its second column: the null was reported
C23_Witness ==
    /\ backend = "polars"
    /\ Len(schema) = 2
    /\ schema[1].ann = Annotated("int", <<Range(0, 0), Unique>>)
    /\ Present(1)
    /\ ColumnOf(1).dtype = "Int64"
    /\ ColumnOf(1).values = <<Null, Cell(1)>>
    /\ ~Present(2)
    /\ Len(outcomes) > 0
    /\ outcomes[1].kind = "NullabilityViolation"
    /\ outcomes[1].col = "a"
    /\ outcomes[1].examined = 1

-----------------------------------------------------------------------------
(* C24 *)

\* C24: an annotation that wraps a basic type T in both Annotated (with
\* validators vs) and Optional, in either nesting order, decomposes to the
\* bare T, the validators vs and nullable; a validated column so declared
\* is never reported as of an unsupported type.
C24_NestingOrderIrrelevant ==
    \A i \in 1..Len(schema) :
        ( /\ schema[i].ann.base \in BasicTypes
          /\ \E k \in 1..Len(schema[i].ann.wrap) :
                schema[i].ann.wrap[k] = "Annotated"
          /\ \E k \in 1..Len(schema[i].ann.wrap) :
                schema[i].ann.wrap[k] = "Optional" )
        => /\ extract_type_and_validators(schema[i].ann).base_type
                = Plain(schema[i].ann.base)
           /\ extract_type_and_validators(schema[i].ann).validators
                = schema[i].ann.meta
           /\ extract_type_and_validators(schema[i].ann).is_optional
           /\ \A c \in Calls : outcomes[c].kind # "UnsupportedType"

-----------------------------------------------------------------------------
(* C25 *)

\* the place of the validator of an unknown class among those of column i
UnknownAt(i) ==
    CHOOSE k \in 1..Len(DeclValidators(schema[i].ann)) :
        DeclValidators(schema[i].ann)[k] = OtherValidator

\* column i is present and passes the dtype and nullability checks
PassesBeforeValidators(i) ==
    /\ Present(i)
    /\ validate_dataframe(backend, table,
          <<[name |-> schema[i].name,
             ann |-> [schema[i].ann EXCEPT !.meta = <<>>]]>>).kind = "ok"

\* the validators declared before the one of an unknown class pass on column i
ValidatorsBeforeUnknownPass(i) ==
    \A m \in 1..(UnknownAt(i) - 1) :
        apply_validator(backend, ColumnOf(i), DeclValidators(schema[i].ann)[m],
                        schema[i].name).kind = "ok"

\* C25: when the first declared column is present, has passed its dtype and
\* nullability checks and carries a validator that is neither a Range nor a
\* Unique, the validation raises the unknown-validator error whatever the
\* values of the column (an empty column included) and whatever the
\* validators declared after it would say, provided the validators declared
\* before it pass; when one of those fails, its constraint error is raised
\* instead.
C25_UnknownValidator ==
    \A c \in Calls :
        ( /\ \E k \in 1..Len(DeclValidators(schema[1].ann)) :
                DeclValidators(schema[1].ann)[k] = OtherValidator
          /\ PassesBeforeValidators(1) )
        => IF ValidatorsBeforeUnknownPass(1)
           THEN /\ outcomes[c].kind = "UnknownValidator"
                /\ outcomes[c].detail = "Other"
           ELSE outcomes[c].kind = "ConstraintViolation"

\* a column with a repeated value whose declaration has a range before and
\* a uniqueness validator after the unknown one: the range passed, the
\* unknown validator raised, the uniqueness validator never saw the column
C25_Witness ==
    /\ Len(outcomes) > 0
    /\ outcomes[1].kind = "UnknownValidator"
    /\ Present(1)
    /\ ColumnOf(1).values = <<Cell(0), Cell(0)>>
    /\ schema[1].ann = Annotated("int", <<Range(0, 0), OtherValidator, Unique>>)

\* the same declaration over a column without rows
C25_EmptyColumn ==
    /\ Len(outcomes) > 0
    /\ outcomes[1].kind = "UnknownValidator"
    /\ Present(1)
    /\ ColumnOf(1).values = <<>>
    /\ schema[1].ann = Annotated("int", <<Range(0, 0), OtherValidator, Unique>>)

-----------------------------------------------------------------------------
(* C26 *)

\* C26: in the polars backend a present column declared datetime, the
\* columns before it passing, is accepted by the dtype check exactly when
\* its dtype is a Datetime; with a Date, a Duration or any other dtype the
\* validation raises a type mismatch that names the column.
C26_PolarsDatetime ==
    \A c \in Calls : \A i \in 1..Len(schema) :
        ( /\ backend = "polars"
          /\ DeclBase(schema[i].ann) = "datetime"
          /\ Present(i)
          /\ EarlierPass(i) )
        => (MismatchAt(c, i) <=> ColumnOf(i).dtype # "Datetime")

-----------------------------------------------------------------------------
(* C27 *)

\* every validator of column i passes on it, as the backend applies them
ValidatorsPass(i) ==
    \A k \in 1..Len(DeclValidators(schema[i].ann)) :
        apply_validator(backend, ColumnOf(i), DeclValidators(schema[i].ann)[k],
                        schema[i].name).kind = "ok"

\* C27: a present column declared with a dtype class of the backend, not
\* Optional, whose dtype is exactly the declared one is never rejected for
\* its nulls: when its validators pass no error names it (and the table is
\* accepted when it is the last column), and otherwise the error is the
\* constraint error of a validator.
C27_NativeSkipsNullability ==
    \A c \in Calls : \A i \in 1..Len(schema) :
        ( /\ Present(i)
          /\ DeclBase(schema[i].ann) \in NativeTypes(backend)
          /\ ~DeclNullable(schema[i].ann)
          /\ ColumnOf(i).dtype \in DtypesOf(backend, DeclBase(schema[i].ann))
          /\ EarlierPass(i) )
        => /\ ~( /\ outcomes[c].kind = "NullabilityViolation"
                 /\ outcomes[c].col = schema[i].name )
           /\ IF ValidatorsPass(i)
              THEN /\ outcomes[c].col # schema[i].name
                   /\ i = Len(schema) => outcomes[c].kind = "ok"
              ELSE /\ outcomes[c].kind = "ConstraintViolation"
                   /\ outcomes[c].col = schema[i].name

\* a polars Int64 column with a null and a value in range, declared
\* Annotated[pl.Int64, Range(0, 0)] without Optional, was accepted
C27_Witness ==
    /\ backend = "polars"
    /\ Len(schema) = 1
    /\ schema[1].ann = Annotated("Int64", <<Range(0, 0)>>)
    /\ Present(1)
    /\ ColumnOf(1).dtype = "Int64"
    /\ ColumnOf(1).values = <<Null, Cell(0)>>
    /\ Len(outcomes) > 0
    /\ outcomes[1].kind = "ok"
    /\ frame.built

-----------------------------------------------------------------------------
(* C28 *)

\* what DataFrame[S](table, strict=s) raises on the data of this behaviour
EagerOf(s) == pl_DataFrame_init(table, schema, s).raised

\* the place in the schema of the column an error names
DeclaredAt(name) == CHOOSE i \in 1..Len(schema) : schema[i].name = name

\* data on which the eager construction succeeds pass the lazy construction
\* with the same strict flag, and collect() returns them as a table
EagerSuccessImpliesLazy ==
    /\ (last.op = "lazy" /\ EagerOf(last.strict).kind = "ok")
          => outcomes[1].kind = "ok" /\ lazy.built
    /\ (last.op = "collect" /\ lazy.ldf = table /\ EagerOf(FALSE).kind = "ok")
          => /\ LastOutcome.kind = "ok"
             /\ frame.built
             /\ frame.data = table

C28_CollectedWitness ==
    /\ last.op = "collect"
    /\ lazy.ldf = table
    /\ EagerOf(TRUE).kind = "ok"
    /\ Len(table) = 2
    /\ LastOutcome.kind = "ok"
    /\ frame.built

-----------------------------------------------------------------------------
(* C29 *)

\* C29: DataFrame[S].make_empty() raises nothing and returns a table without
\* rows that passes the validation against S, in strict mode as well;
\* LazyFrame[S].make_empty() raises nothing and returns a lazy frame, and
\* collect() on the lazy frame of the empty columns raises nothing and
\* returns the table without rows.
C29_MakeEmptyRoundTrip ==
    /\ last.op = "make_empty"
          => /\ outcomes[1].kind = "ok"
             /\ frame.built
             /\ \A k \in 1..Len(frame.data) : frame.data[k].values = <<>>
             /\ pv_validate_dataframe(frame.data, schema, TRUE).kind = "ok"
    /\ last.op = "lazy_make_empty"
          => /\ outcomes[1].kind = "ok"
             /\ lazy.built
             /\ lazy.ldf = build_empty_columns(schema)
    /\ (last.op = "collect" /\ lazy.ldf = build_empty_columns(schema))
          => /\ LastOutcome.kind = "ok"
             /\ frame.built
             /\ frame.data = build_empty_columns(schema)

\* the lazy frame of the empty columns of a schema with a literal set and a
\* not-required column, made while the table of the behaviour has other
\* columns, was collected
C29_Witness ==
    /\ last.op = "collect"
    /\ Len(outcomes) = 2
    /\ Len(schema) = 2
    /\ schema[1].ann = Plain("Literal[s0]")
    /\ schema[2].ann = NotRequired("int")
    /\ lazy.ldf = build_empty_columns(schema)
    /\ table # lazy.ldf
    /\ LastOutcome.kind = "ok"
    /\ frame.built
    /\ Len(frame.data) = 2
    /\ frame.data[1].dtype = "String"
    /\ frame.data[1].values = <<>>

====
